---------------------------- MODULE Spec2Model ----------------------------
(***************************************************************************)
(* Model of src/_includes/scripts/search.ts, the quick-search overlay of   *)
(* the notion-enhancer documentation site.                                 *)
(*                                                                         *)
(* Strings are sequences of one-character strings, so that toLowerCase,    *)
(* includes and startsWith are computed and not assumed.  The browser's    *)
(* event loop is modelled by what one task does: a task runs its handler   *)
(* and every promise continuation (microtask) that is ready, so a step of  *)
(* the model is one task.  The tasks are: a call of initSearch, an input   *)
(* event, a click on the clear button, the arrival of the response of a    *)
(* pending fetch, the end of the read of its body, and the failure of      *)
(* either.                                                                 *)
(*                                                                         *)
(* FuzzySet (a library loaded from a CDN) is outside the repository: the   *)
(* score it gives to a pair of strings is any value of Scores, chosen the  *)
(* first time fuzzyMatch computes the pair.  0 stands for "no match", the  *)
(* other values for the similarity levels in increasing order.             *)
(*                                                                         *)
(* The keys of the plain objects (_fuzzyCache, grouped) are assumed not to *)
(* be names of members of Object.prototype.                                *)
(*                                                                         *)
(* Spec follows the index, the caches and the results area through the     *)
(* calls of initSearch, the input events and the network.  The buttons and *)
(* the hotkeys act on the visibility of the panel and on the focus only,   *)
(* so SpecGui follows them, with initSearch and the input events, from the *)
(* states of Spec in which an index is stored and rendered.  What the      *)
(* browser does by itself with a key or a click (following the link of a   *)
(* result, scrolling) is not modelled, except that the user can move the   *)
(* focus.                                                                  *)
(***************************************************************************)
EXTENDS Integers, Sequences, FiniteSets, TLC

\* ------------------------------------------------------------------ bounds

\* Longest index payload the server serves.
MaxIndexLen == 2
\* Longest value the user gives to the query input.
MaxQueryLen == 2
\* Highest similarity level of the fuzzy matcher (0 is "no match").
MaxScore == 2
\* Network requests for the index that are issued in one run.
MaxRequests == 2
\* Input events of one run.
MaxInputs == 2

\* ----------------------------------------------------------------- strings

\* The characters a user types.
Chars == {"A", "b"}

Lower(c) == IF c = "A" THEN "a" ELSE c

\* String.prototype.toLowerCase
ToLowerCase(s) == [i \in 1..Len(s) |-> Lower(s[i])]

\* String.prototype.includes
StrIncludes(a, b) ==
  \E i \in 0..(Len(a) - Len(b)) : SubSeq(a, i + 1, i + Len(b)) = b

\* String.prototype.startsWith
StartsWith(a, b) == Len(b) <= Len(a) /\ SubSeq(a, 1, Len(b)) = b

RECURSIVE SeqsUpTo(_, _)
SeqsUpTo(S, n) ==
  IF n = 0 THEN {<<>>}
  ELSE LET shorter == SeqsUpTo(S, n - 1)
       IN  shorter \cup {Append(s, x) : s \in shorter, x \in S}

\* The values the query input can be given.
InputValues == SeqsUpTo(Chars, MaxQueryLen)

Scores == 0..MaxScore

\* ------------------------------------------------------------------- index

\* interface SearchResult (page, which is only displayed, is left out)
SiteEntries ==
  { [url |-> "/a", type |-> "page",    section |-> "Guides", text |-> <<"A", "b">>],
    [url |-> "/b", type |-> "heading", section |-> "2021",   text |-> <<"b">>],
    [url |-> "/c", type |-> "inline",  section |-> "7",      text |-> <<"b", "A">>] }

\* What /search-index.json can hold.
Payloads == SeqsUpTo(SiteEntries, MaxIndexLen)

\* The objects res.json() creates for a payload, pushed from position `base`
\* on: `id` is the identity of the object.
Parsed(p, base) ==
  [i \in 1..Len(p) |->
     [id |-> base + i, url |-> p[i].url, type |-> p[i].type,
      section |-> p[i].section, text |-> p[i].text]]

\* An entry without its identity: what the payload said.
Content(r) ==
  [url |-> r.url, type |-> r.type, section |-> r.section, text |-> r.text]

Contents(rs) == [i \in 1..Len(rs) |-> Content(rs[i])]

\* Array.prototype.includes on objects: identity
ArrIncludes(arr, r) == \E i \in 1..Len(arr) : arr[i].id = r.id


\* ------------------------------------------------------------------- state

VARIABLES
  payload,      \* what the server holds at /search-index.json
  initialized,  \* initSearch has attached the listeners
  input,        \* $.input().value
  resultsDom,   \* the children of $.results(): one list per section
  _indexCache,  \* const _indexCache: SearchResult[]
  _fuzzyCache,  \* const _fuzzyCache, keyed by <<a, b>>
  _matchCache,  \* const _matchCache = { query, results }
  calls,        \* the calls suspended at an await of fetchIndex, oldest first
  netRequests,  \* requests for the index issued so far
  netSucceeded, \* of these, completed and stored
  inputs,       \* input events so far
  ev,           \* what the last task did
  issued,       \* the query of the last call of search, if any: << >> or <<q>>
  fuzzyRuns,    \* per pair <<a, b>>, how often FuzzySet has computed it
  isOpen,       \* $.container() lacks the class opacity-0
  focus         \* document.activeElement

vars ==
  << payload, initialized, input, resultsDom, _indexCache, _fuzzyCache,
     _matchCache, calls, netRequests, netSucceeded, inputs, ev, issued,
     fuzzyRuns, isOpen, focus >>

\* An event: the operation (op), the kind of the call it belongs to, and
\* for a search its candidate pool ("cache" or "index").
Event(op, kind, pool) == [op |-> op, kind |-> kind, pool |-> pool]

\* The elements document.activeElement is told apart by: the query input,
\* the link of the k-th result of the s-th rendered section, and any other
\* element (the body, a button).
Body == [el |-> "body", s |-> 0, k |-> 0]

InputEl == [el |-> "input", s |-> 0, k |-> 0]

Link(s, k) == [el |-> "link", s |-> s, k |-> k]

\* document.activeElement after $.results().innerHTML = "": a link that had
\* the focus is gone, and the focus is on the body.
detached(f) == IF f.el = "link" THEN Body ELSE f

\* ----------------------------------------------------------------- matcher

\* exactMatch
exactMatch(a, b) == StrIncludes(ToLowerCase(a), ToLowerCase(b))

\* The condition below with the operands of startsWith exchanged.
usesMatchCacheSwapped(query) ==
  /\ query # <<>>
  /\ Len(_matchCache.results) # 0
  /\ _matchCache.query # <<>>
  /\ StartsWith(_matchCache.query, query)

\* The condition below without the test of _matchCache.query.
usesMatchCacheAnyQuery(query) ==
  /\ query # <<>>
  /\ Len(_matchCache.results) # 0
  /\ StartsWith(query, _matchCache.query)

\* The condition of the conditional at the head of search: the session cache
\* is the candidate pool.
usesMatchCache(query) ==
  /\ query # <<>>
  /\ Len(_matchCache.results) # 0
  /\ _matchCache.query # <<>>
  /\ StartsWith(query, _matchCache.query)

\* The pool search takes from the index fetchIndex returned.
indexPool(query, idx) ==
  IF query # <<>> THEN idx ELSE SelectSeq(idx, LAMBDA r : r.type = "page")

\* exact = index.filter((result) => exactMatch(result.text, query))
exactOf(index, query) == SelectSeq(index, LAMBDA r : exactMatch(r.text, query))

\* The filter below left out: every candidate goes on to the fuzzy matcher.
restOfAll(index, exact) == index

\* index.filter((result) => !exact.includes(result))
restOf(index, exact) == SelectSeq(index, LAMBDA r : ~ArrIncludes(exact, r))

\* The test of fuzzyMatch with a falsy stored score taken for a missing one:
\* !_fuzzyCache[a][b]
isMemoizedTruthy(a, b) ==
  <<a, b>> \in DOMAIN _fuzzyCache /\ _fuzzyCache[<<a, b>>] # 0

\* The test of fuzzyMatch: _fuzzyCache[a] exists and _fuzzyCache[a][b] is
\* not undefined.
isMemoized(a, b) == <<a, b>> \in DOMAIN _fuzzyCache

\* The pairs fuzzyMatch has to compute for these candidates: those that
\* _fuzzyCache does not hold yet.
newPairs(rest, query) ==
  {p \in {<<rest[i].text, query>> : i \in 1..Len(rest)} :
     ~isMemoized(p[1], p[2])}

\* fuzzyRuns after FuzzySet computed the pairs `computed`.
fuzzyRan(computed) ==
  [p \in (DOMAIN fuzzyRuns) \cup computed |->
     (IF p \in DOMAIN fuzzyRuns THEN fuzzyRuns[p] ELSE 0)
       + (IF p \in computed THEN 1 ELSE 0)]

\* _fuzzyCache after fuzzyMatch stored the scores `sc` of the new pairs.
fuzzyStored(sc) ==
  [p \in (DOMAIN _fuzzyCache) \cup (DOMAIN sc) |->
     IF p \in DOMAIN _fuzzyCache THEN _fuzzyCache[p] ELSE sc[p]]

\* The filter below left out.
fuzzyKeptAll(rest, query, fc) == rest

\* .filter((result) => fuzzyMatch(result.text, query))
fuzzyKept(rest, query, fc) ==
  SelectSeq(rest, LAMBDA r : fc[<<r.text, query>>] # 0)

\* One insertion of a stable sort under the comparator
\* fuzzyMatch(a.text, query) - fuzzyMatch(b.text, query).
RECURSIVE insertSorted(_, _, _, _)
insertSorted(sorted, r, query, fc) ==
  IF sorted = <<>> THEN <<r>>
  ELSE LET last == sorted[Len(sorted)]
       IN  IF fc[<<last.text, query>>] - fc[<<r.text, query>>] > 0
           THEN Append(insertSorted(SubSeq(sorted, 1, Len(sorted) - 1),
                                    r, query, fc), last)
           ELSE Append(sorted, r)

\* Array.prototype.sort, which is stable.
RECURSIVE sortByScore(_, _, _)
sortByScore(rs, query, fc) ==
  IF rs = <<>> THEN <<>>
  ELSE insertSorted(sortByScore(SubSeq(rs, 1, Len(rs) - 1), query, fc),
                    rs[Len(rs)], query, fc)

\* The sort below left out.
fuzzyOfUnsorted(rest, query, fc) == fuzzyKept(rest, query, fc)

\* fuzzy = index.filter(..).filter(..).sort(..)
fuzzyOf(rest, query, fc) == sortByScore(fuzzyKept(rest, query, fc), query, fc)

\* The spread below in the other order.
matchesFuzzyFirst(exact, fuzzy) == fuzzy \o exact

\* matches = [...exact, ...fuzzy]
matchesOf(exact, fuzzy) == exact \o fuzzy

\* ----------------------------------------------------------------- grouper

\* The object `grouped` is the sequence of its own properties in the order
\* of their creation, each [section, results].
hasKey(groups, k) == \E i \in 1..Len(groups) : groups[i].section = k

\* One call of the reducer of matches.reduce.
groupStep(groups, result) ==
  IF ~hasKey(groups, result.section)
  THEN Append(groups, [section |-> result.section, results |-> <<result>>])
  ELSE [i \in 1..Len(groups) |->
          IF groups[i].section = result.section
          THEN [groups[i] EXCEPT !.results = Append(@, result)]
          ELSE groups[i]]

\* grouped = matches.reduce(.., {})
RECURSIVE groupedOf(_)
groupedOf(matches) ==
  IF matches = <<>> THEN <<>>
  ELSE groupStep(groupedOf(SubSeq(matches, 1, Len(matches) - 1)),
                 matches[Len(matches)])

\* The property names that are array indices (canonical numeric strings),
\* with their values.
ArrayIndexKeys == [k \in {"7", "2021"} |-> IF k = "7" THEN 7 ELSE 2021]

isArrayIndex(k) == k \in DOMAIN ArrayIndexKeys

\* The array-index properties in ascending numeric order.
RECURSIVE ascendingIndexKeys(_)
ascendingIndexKeys(groups) ==
  IF groups = <<>> THEN <<>>
  ELSE LET least == CHOOSE i \in 1..Len(groups) :
                      \A j \in 1..Len(groups) :
                        ArrayIndexKeys[groups[i].section]
                          <= ArrayIndexKeys[groups[j].section]
       IN  <<groups[least]>> \o
           ascendingIndexKeys(SelectSeq(groups,
             LAMBDA g : g.section # groups[least].section))

\* for (const section in grouped): an object's array-index properties come
\* first, in ascending numeric order, then its other string properties in
\* the order of their creation.
forIn(groups) ==
  ascendingIndexKeys(SelectSeq(groups, LAMBDA g : isArrayIndex(g.section)))
    \o SelectSeq(groups, LAMBDA g : ~isArrayIndex(g.section))

\* $.results() after the loop that appends widgets.section(..) per section.
rendered(matches) == forIn(groupedOf(matches))

\* ------------------------------------------------------------------ search

\* search from the filters on: the matcher on the pool `index`, the update
\* of _matchCache and the rendering.  `op` and `pool` only label the event.
Matcher(op, query, index, pool) ==
  LET exact == exactOf(index, query)
      rest  == restOf(index, exact)
  IN  \E sc \in [newPairs(rest, query) -> Scores] :
        LET fc      == fuzzyStored(sc)
            matches == matchesOf(exact, fuzzyOf(rest, query, fc))
        IN  /\ _fuzzyCache' = fc
            /\ fuzzyRuns' = fuzzyRan(DOMAIN sc)
            /\ _matchCache' = [query |-> query, results |-> matches]
            /\ resultsDom' = rendered(matches)
            /\ ev' = Event(op, "search", pool)

\* fetchIndex up to its first await, when _indexCache is empty: a request is
\* issued and the caller, of kind `kind`, joins the suspended calls.
Request(kind, query, pending) ==
  /\ netRequests < MaxRequests
  /\ netRequests' = netRequests + 1
  /\ calls' = Append(pending, [kind |-> kind, pc |-> "fetch", query |-> query])

\* search, called in a task in which the input holds `value`, the index
\* `idx`, the results area `dom`, and `pending` are the suspended calls: it
\* runs to its end, or to the await of a request.
search(value, idx, pending, dom) ==
  LET query == ToLowerCase(value)
  IN  /\ issued' = <<query>>
      /\ IF usesMatchCache(query)
         THEN /\ Matcher("search", query, _matchCache.results, "cache")
              /\ calls' = pending
              /\ netRequests' = netRequests
         ELSE IF Len(idx) # 0
         THEN /\ Matcher("search", query, indexPool(query, idx), "index")
              /\ calls' = pending
              /\ netRequests' = netRequests
         ELSE /\ Request("search", query, pending)
              /\ resultsDom' = dom
              /\ ev' = Event("await", "search", "index")
              /\ UNCHANGED <<_fuzzyCache, _matchCache, fuzzyRuns>>

\* The callback below without its condition, showing the default view
\* whatever the input holds.
thenCallbackAlways(value, idx, pending, dom) ==
  search(<<>>, idx, pending, dom)

\* The callback initSearch gives to fetchIndex().then:
\* if (!$.input().value) search()
thenCallback(value, idx, pending, dom) ==
  IF value = <<>>
  THEN search(value, idx, pending, dom)
  ELSE /\ calls' = pending
       /\ netRequests' = netRequests
       /\ resultsDom' = dom
       /\ ev' = Event("stored", "init", "none")
       /\ UNCHANGED <<_fuzzyCache, _matchCache, issued, fuzzyRuns>>

\* --------------------------------------------------------------------- gui

\* What the gui functions read and write: the visibility of the panel and
\* the focus.
Gui(open, f) == [isOpen |-> open, focus |-> f]

\* gui.open
guiOpen(g) == Gui(TRUE, InputEl)

\* gui.close: $.input().blur() moves the focus only if the input has it.
guiClose(g) == Gui(FALSE, IF g.focus = InputEl THEN Body ELSE g.focus)

\* gui.toggle
guiToggle(g) == IF g.isOpen THEN guiClose(g) ELSE guiOpen(g)

\* gui.focusPrev over the rendered sections `dom`.  Every section is a list
\* whose first item is the section title, without a link, followed by one
\* item with a link per result; the siblings of an item are the items of
\* its own section.
focusPrev(g, dom) ==
  IF ~g.isOpen THEN g
  ELSE IF g.focus = InputEl
  THEN IF dom = <<>> THEN g ELSE Gui(g.isOpen, Link(Len(dom), 1))
  ELSE IF g.focus.el = "link"
  THEN IF g.focus.k > 1
       THEN Gui(g.isOpen, Link(g.focus.s, g.focus.k - 1))
       ELSE Gui(g.isOpen, InputEl)
  ELSE g

\* gui.focusNext over the rendered sections `dom`; $first is Link(1, 1).
focusNext(g, dom) ==
  IF ~g.isOpen THEN g
  ELSE IF g.focus = InputEl
  THEN IF dom = <<>> THEN g ELSE Gui(g.isOpen, Link(1, 1))
  ELSE IF g.focus.el = "link"
  THEN IF g.focus.k < Len(dom[g.focus.s].results)
       THEN Gui(g.isOpen, Link(g.focus.s, g.focus.k + 1))
       ELSE Gui(g.isOpen, Link(1, 1))
  ELSE g

\* document.activeElement.click(): the click on a result link reaches the
\* listener of its item, gui.close; a click on the input reaches none.
clickActive(g) == IF g.focus.el = "link" THEN guiClose(g) ELSE g

\* The keys the hotkeys tell apart, and one they do not.
Keys == {"k", "Escape", "ArrowUp", "ArrowDown", "/", "Enter", "Tab"}

\* The keydown events.
KeyboardEvents ==
  [key : Keys, metaKey : BOOLEAN, ctrlKey : BOOLEAN, shiftKey : BOOLEAN,
   altKey : BOOLEAN]

\* The modifiers of an event, as far as the events are labelled by them.
Modifiers(event) ==
  IF ~event.metaKey /\ ~event.shiftKey /\ ~event.altKey
  THEN IF event.ctrlKey THEN "ctrl" ELSE "none"
  ELSE "other"

\* hotkeys[0], toggle
toggleHotkey(event, g) ==
  IF \/ event.metaKey # FALSE
     \/ event.ctrlKey # TRUE
     \/ event.shiftKey # FALSE
     \/ event.altKey # FALSE
     \/ event.key # "k"
  THEN g
  ELSE guiToggle(g)

\* The first statement below left out.
navigationNeverReturns(g) == FALSE

\* hotkeys[1]: if (!gui.isOpen()) return;
navigationReturns(g) == ~g.isOpen

\* hotkeys[1], navigation: its statements in their order.
navigation(event, g, dom) ==
  IF navigationReturns(g) THEN g
  ELSE LET g1 == IF event.key = "Escape" THEN guiClose(g) ELSE g
           g2 == IF event.key = "ArrowUp" THEN focusPrev(g1, dom) ELSE g1
           g3 == IF event.key = "ArrowDown" THEN focusNext(g2, dom) ELSE g2
           g4 == IF event.key = "/" /\ g3.focus # InputEl
                 THEN Gui(g3.isOpen, InputEl) ELSE g3
       IN  IF event.key = "Enter" /\ g4.focus = InputEl
           THEN clickActive(focusNext(g4, dom))
           ELSE g4

\* ------------------------------------------------------------------- tasks

Remove(s, i) == SubSeq(s, 1, i - 1) \o SubSeq(s, i + 1, Len(s))

\* initSearch: gui.clear(), fetchIndex().then(..) and the listeners.  With
\* the index stored, fetchIndex is resolved and the callback runs in the
\* same task.
InitSearch ==
  /\ initialized' = TRUE
  /\ input' = <<>>
  /\ IF Len(_indexCache) # 0
     THEN thenCallback(<<>>, _indexCache, calls, <<>>)
     ELSE /\ Request("init", <<>>, calls)
          /\ resultsDom' = <<>>
          /\ ev' = Event("await", "init", "none")
          /\ UNCHANGED <<_fuzzyCache, _matchCache, issued, fuzzyRuns>>
  /\ isOpen' = FALSE
  /\ focus' = Body
  /\ UNCHANGED <<payload, _indexCache, netSucceeded, inputs>>

\* The input event of the query input, whose listener is search.
InputEvent(v) ==
  /\ initialized
  /\ inputs < MaxInputs
  /\ inputs' = inputs + 1
  /\ input' = v
  /\ search(v, _indexCache, calls, resultsDom)
  /\ focus' = IF ev'.op = "search" THEN detached(focus) ELSE focus
  /\ UNCHANGED <<payload, initialized, _indexCache, netSucceeded, isOpen>>

\* A click on the clear button, whose listener is gui.clear.
ClickClear ==
  /\ initialized
  /\ input' = <<>>
  /\ resultsDom' = <<>>
  /\ ev' = Event("clear", "none", "none")
  /\ focus' = Body
  /\ UNCHANGED <<payload, initialized, _indexCache, _fuzzyCache, _matchCache,
                 calls, netRequests, netSucceeded, inputs, issued, fuzzyRuns,
                 isOpen>>

\* await fetch(..) resolves: fetchIndex goes on to await res.json().
ResponseArrives(i) ==
  /\ calls[i].pc = "fetch"
  /\ calls' = [calls EXCEPT ![i].pc = "json"]
  /\ ev' = Event("response", calls[i].kind, "none")
  /\ UNCHANGED <<payload, initialized, input, resultsDom, _indexCache,
                 _fuzzyCache, _matchCache, netRequests, netSucceeded, inputs,
                 issued, fuzzyRuns, isOpen, focus>>

\* The rejection below replaced by a retry of the request.
RejectedRetried(i) ==
  /\ netRequests < MaxRequests
  /\ netRequests' = netRequests + 1
  /\ calls' = [calls EXCEPT ![i].pc = "fetch"]
  /\ ev' = Event("retry", calls[i].kind, "none")
  /\ UNCHANGED <<payload, initialized, input, resultsDom, _indexCache,
                 _fuzzyCache, _matchCache, netSucceeded, inputs, issued,
                 fuzzyRuns, isOpen, focus>>

\* The promise of a suspended call is rejected: fetchIndex has no handler,
\* nor has search, nor the then of initSearch.
Rejected(i) ==
  /\ calls' = Remove(calls, i)
  /\ ev' = Event("reject", calls[i].kind, "none")
  /\ UNCHANGED <<payload, initialized, input, resultsDom, _indexCache,
                 _fuzzyCache, _matchCache, netRequests, netSucceeded, inputs,
                 issued, fuzzyRuns, isOpen, focus>>

\* await fetch(..) rejects: a network error.
FetchFails(i) ==
  /\ calls[i].pc = "fetch"
  /\ Rejected(i)

\* await res.json() rejects, or the spread of its value throws: the payload
\* is not a JSON array.
JsonFails(i) ==
  /\ calls[i].pc = "json"
  /\ Rejected(i)

\* await res.json() resolves: fetchIndex pushes the entries and returns, and
\* its caller goes on.
JsonResolves(i) ==
  /\ calls[i].pc = "json"
  /\ LET idx == _indexCache \o Parsed(payload, Len(_indexCache))
         pending == Remove(calls, i)
     IN  /\ _indexCache' = idx
         /\ netSucceeded' = netSucceeded + 1
         /\ IF calls[i].kind = "search"
            THEN /\ Matcher("resume", calls[i].query,
                            indexPool(calls[i].query, idx), "index")
                 /\ calls' = pending
                 /\ netRequests' = netRequests
                 /\ issued' = issued
            ELSE thenCallback(input, idx, pending, resultsDom)
  /\ focus' = IF ev'.op \in {"search", "resume"} THEN detached(focus) ELSE focus
  /\ UNCHANGED <<payload, initialized, input, inputs, isOpen>>

\* A keydown event on the document: the listeners run in the order in which
\* initSearch added them.
KeyDown(event) ==
  /\ initialized
  /\ LET g == navigation(event, toggleHotkey(event, Gui(isOpen, focus)),
                         resultsDom)
     IN  /\ isOpen' = g.isOpen
         /\ focus' = g.focus
  /\ ev' = Event("keydown", event.key, Modifiers(event))
  /\ UNCHANGED <<payload, initialized, input, resultsDom, _indexCache,
                 _fuzzyCache, _matchCache, calls, netRequests, netSucceeded,
                 inputs, issued, fuzzyRuns>>

\* A click on the open button, whose listener is gui.open.
ClickOpen ==
  /\ initialized
  /\ isOpen' = guiOpen(Gui(isOpen, Body)).isOpen
  /\ focus' = guiOpen(Gui(isOpen, Body)).focus
  /\ ev' = Event("click", "open", "none")
  /\ UNCHANGED <<payload, initialized, input, resultsDom, _indexCache,
                 _fuzzyCache, _matchCache, calls, netRequests, netSucceeded,
                 inputs, issued, fuzzyRuns>>

\* A click on the close button of the open panel, whose listener is
\* gui.close; the click has taken the focus from where it was.
ClickClose ==
  /\ initialized
  /\ isOpen
  /\ isOpen' = guiClose(Gui(isOpen, Body)).isOpen
  /\ focus' = guiClose(Gui(isOpen, Body)).focus
  /\ ev' = Event("click", "close", "none")
  /\ UNCHANGED <<payload, initialized, input, resultsDom, _indexCache,
                 _fuzzyCache, _matchCache, calls, netRequests, netSucceeded,
                 inputs, issued, fuzzyRuns>>

\* A click on the k-th result of the s-th section of the open panel: the
\* link takes the focus and the listener of its item is gui.close.
ClickResult(s, k) ==
  /\ isOpen
  /\ isOpen' = guiClose(Gui(isOpen, Link(s, k))).isOpen
  /\ focus' = guiClose(Gui(isOpen, Link(s, k))).focus
  /\ ev' = Event("click", "result", "none")
  /\ UNCHANGED <<payload, initialized, input, resultsDom, _indexCache,
                 _fuzzyCache, _matchCache, calls, netRequests, netSucceeded,
                 inputs, issued, fuzzyRuns>>

\* The elements that can have the focus.
Links(dom) ==
  UNION {{Link(s, k) : k \in 1..Len(dom[s].results)} : s \in 1..Len(dom)}

Focusable == {Body, InputEl} \cup Links(resultsDom)

\* The user moves the focus to the element f with the Tab key or the
\* pointer: no listener of search.ts acts on it.
FocusMoves(f) ==
  /\ focus' = f
  /\ ev' = Event("focus", f.el, "none")
  /\ UNCHANGED <<payload, initialized, input, resultsDom, _indexCache,
                 _fuzzyCache, _matchCache, calls, netRequests, netSucceeded,
                 inputs, issued, fuzzyRuns, isOpen>>

Init ==
  /\ payload \in Payloads
  /\ initialized = FALSE
  /\ input = <<>>
  /\ resultsDom = <<>>
  /\ _indexCache = <<>>
  /\ _fuzzyCache = <<>>
  /\ _matchCache = [query |-> <<>>, results |-> <<>>]
  /\ calls = <<>>
  /\ netRequests = 0
  /\ netSucceeded = 0
  /\ inputs = 0
  /\ ev = Event("none", "none", "none")
  /\ issued = <<>>
  /\ fuzzyRuns = <<>>
  /\ isOpen = FALSE
  /\ focus = Body

Next ==
  \/ InitSearch
  \/ \E v \in InputValues : InputEvent(v)
  \/ ClickClear
  \/ \E i \in 1..Len(calls) : ResponseArrives(i)
  \/ \E i \in 1..Len(calls) : FetchFails(i)
  \/ \E i \in 1..Len(calls) : JsonFails(i)
  \/ \E i \in 1..Len(calls) : JsonResolves(i)

Spec == Init /\ [][Next]_vars

\* The panel and the keyboard are followed from the state in which
\* initSearch has fetched an index that is not empty and shown the default
\* view, and a first input event has searched for "b", which every entry
\* contains: all the entries are rendered.
InitGui ==
  /\ payload \in Payloads \ {<<>>}
  /\ initialized = TRUE
  /\ input = <<"b">>
  /\ resultsDom = rendered(Parsed(payload, 0))
  /\ _indexCache = Parsed(payload, 0)
  /\ _fuzzyCache = <<>>
  /\ _matchCache = [query |-> <<"b">>, results |-> Parsed(payload, 0)]
  /\ calls = <<>>
  /\ netRequests = 1
  /\ netSucceeded = 1
  /\ inputs = 1
  /\ ev = Event("search", "search", "index")
  /\ issued = << <<"b">> >>
  /\ fuzzyRuns = <<>>
  /\ isOpen = FALSE
  /\ focus = Body

NextGui ==
  \/ InitSearch
  \/ \E v \in InputValues : InputEvent(v)
  \/ ClickClear
  \/ \E event \in KeyboardEvents : KeyDown(event)
  \/ ClickOpen
  \/ ClickClose
  \/ \E s \in 1..Len(resultsDom) :
       \E k \in 1..Len(resultsDom[s].results) : ClickResult(s, k)
  \/ \E f \in Focusable : FocusMoves(f)

SpecGui == InitGui /\ [][NextGui]_vars

\* ------------------------------------------------------------ properties

\* A search ended in the last task: within the task that called it ("search")
\* or after the await of a request ("resume").
SearchEnded == ev.op \in {"search", "resume"}

IsExact(r) == exactMatch(r.text, _matchCache.query)

\* C1: while a fetch of the index is outstanding no further request is
\* issued: at most one request is ever in flight or completed successfully.
\* Every suspended call holds one request in flight.
C1_AtMostOneRequest == Len(calls) + netSucceeded <= 1

\* C2: once a fetchIndex call has completed successfully, whatever the
\* payload, no later fetchIndex call issues a request.  The one task that
\* both completes a request and issues one is the end of initSearch's fetch,
\* whose callback calls search and so fetchIndex after the completion.
C2_NoRequestAfterSuccess ==
  [][netRequests' > netRequests => netSucceeded' = 0]_vars

\* C3, as claimed: a search for a query that starts with the non-empty query
\* of the session cache returns only entries of the cached result list.
C3_RefinementOfAnyCachedList ==
  [][(/\ ev'.op = "search"
      /\ _matchCache.query # <<>>
      /\ StartsWith(_matchCache'.query, _matchCache.query))
     => \A k \in 1..Len(_matchCache'.results) :
          ArrIncludes(_matchCache.results, _matchCache'.results[k])]_vars

\* The query of the search that the task started, when it started one.
StartedQuery ==
  IF ev'.op = "search" THEN _matchCache'.query ELSE calls'[Len(calls')].query

\* C3, amended: when the session cache holds a non-empty query and a
\* non-empty result list, a search for a query that starts with the cached
\* query takes the cached list as its pool and returns only entries of it.
C3_RefinementOfNonEmptyCachedList ==
  [][(/\ ev'.op \in {"search", "await"}
      /\ ev'.kind = "search"
      /\ _matchCache.query # <<>>
      /\ Len(_matchCache.results) # 0
      /\ StartsWith(StartedQuery, _matchCache.query))
     => /\ ev'.op = "search"
        /\ ev'.pool = "cache"
        /\ \A k \in 1..Len(_matchCache'.results) :
             ArrIncludes(_matchCache.results, _matchCache'.results[k])]_vars

\* A refinement search has returned some, and fewer than all, of the entries
\* of the index.
C3_Witness ==
  /\ ev.op = "search"
  /\ ev.pool = "cache"
  /\ Len(_matchCache.results) > 0
  /\ Len(_matchCache.results) < Len(_indexCache)

\* C4: in the result of a search for a non-empty query every exact match
\* comes before every fuzzy match.
C4_ExactBeforeFuzzy ==
  LET m == _matchCache.results
  IN  _matchCache.query # <<>> =>
        \A i, j \in 1..Len(m) : (i < j /\ IsExact(m[j])) => IsExact(m[i])

\* A refinement search returned an exact match and a fuzzy match.
C4_Witness ==
  /\ ev.op = "search"
  /\ ev.pool = "cache"
  /\ \E i, j \in 1..Len(_matchCache.results) :
       IsExact(_matchCache.results[i]) /\ ~IsExact(_matchCache.results[j])

C6_EmptyQueryListsPages ==
  (SearchEnded /\ _matchCache.query = <<>>) =>
    Contents(_matchCache.results)
      = SelectSeq(payload, LAMBDA e : e.type = "page")

\* The sections of a result list in the order of their first occurrence.
RECURSIVE FirstOccurrences(_)
FirstOccurrences(ms) ==
  IF ms = <<>> THEN <<>>
  ELSE LET before == FirstOccurrences(SubSeq(ms, 1, Len(ms) - 1))
           s == ms[Len(ms)].section
       IN  IF \E i \in 1..Len(before) : before[i] = s
           THEN before ELSE Append(before, s)

\* C7: the sections are rendered in the order of their first occurrence in
\* the result list, each with its entries in result-list order.
C7_GroupingOrderStable ==
  SearchEnded =>
    LET order == FirstOccurrences(_matchCache.results)
    IN  resultsDom =
          [i \in 1..Len(order) |->
             [section |-> order[i],
              results |-> SelectSeq(_matchCache.results,
                                    LAMBDA r : r.section = order[i])]]

\* C8: no rejection propagates out of search when the index retrieval
\* fails.
C8_SearchNeverRejects == ~(ev.op = "reject" /\ ev.kind = "search")

\* C9: a failed fetch is not retried and stores nothing: the task in which
\* it fails issues no request, leaves the index as it was (empty, unless
\* another fetch has completed) and ends the failing call; and a request is
\* issued only by a call of fetchIndex that finds the index empty, one
\* request per call.
C9_FailedFetchNotRetried ==
  /\ [][(ev'.op = "reject" /\ calls' # calls)
        => /\ netRequests' = netRequests
           /\ _indexCache' = _indexCache
           /\ netSucceeded' = 0 => Len(_indexCache') = 0
           /\ Len(calls') = Len(calls) - 1]_vars
  /\ [][netRequests' > netRequests
        => /\ netRequests' = netRequests + 1
           /\ ev'.op = "await"
           /\ Len(_indexCache') = 0]_vars

\* A fetch failed, nothing is stored, and a later call has issued the one
\* request that is in flight.
C9_Witness ==
  /\ ev.op = "await"
  /\ netRequests = 2
  /\ netSucceeded = 0
  /\ Len(calls) = 1
  /\ Len(_indexCache) = 0

\* C10: once the index has been fetched and stored, the stored sequence does
\* not change.
C10_StoredIndexNeverChanges ==
  [][netSucceeded > 0 => _indexCache' = _indexCache]_vars

\* C11: the result list of a search holds no entry of the index twice; so no
\* entry is both among its exact matches and among its fuzzy matches.
C11_NoEntryTwice ==
  LET m == _matchCache.results
  IN  \A i, j \in 1..Len(m) : m[i].id = m[j].id => i = j

\* A search that waited for the index returned an exact match and a fuzzy
\* match.
C11_Witness ==
  /\ ev.op = "resume"
  /\ _matchCache.query # <<>>
  /\ \E i, j \in 1..Len(_matchCache.results) :
       IsExact(_matchCache.results[i]) /\ ~IsExact(_matchCache.results[j])

\* The position of the entry r in the list rs.
PosIn(rs, r) == CHOOSE i \in 1..Len(rs) : rs[i].id = r.id

C15_LastQueryWins ==
  (SearchEnded /\ calls = <<>> /\ netSucceeded = netRequests)
    => /\ issued = <<_matchCache.query>>
       /\ resultsDom = rendered(_matchCache.results)

\* C16: when a search for a non-empty query has just ended, the exact
\* matches of its result are the entries of the stored index that contain
\* the query, case-insensitively, in index order, whatever the pool was.
C16_ExactMatchesOfFullIndex ==
  (SearchEnded /\ _matchCache.query # <<>>)
    => SelectSeq(_matchCache.results, IsExact)
         = exactOf(_indexCache, _matchCache.query)

\* C17: a search for the empty query leaves the empty query in the session
\* cache; and a search for a non-empty query that finds the empty query in
\* the session cache takes the index as its pool, not the cached list: when
\* it ends in the same task its exact matches are those of the whole index,
\* Heading and Inline entries included.
C17_EmptyQueryResetsPool ==
  /\ [][((ev'.op = "search" /\ issued' = << <<>> >>)
         \/ (/\ ev'.op = "resume"
             /\ \A i \in 1..Len(calls) :
                  calls[i].kind = "search" => calls[i].query = <<>>))
        => _matchCache'.query = <<>>]_vars
  /\ [][(/\ ev'.op \in {"search", "await"}
         /\ ev'.kind = "search"
         /\ _matchCache.query = <<>>
         /\ StartedQuery # <<>>)
        => /\ ev'.pool = "index"
           /\ ev'.op = "search"
              => SelectSeq(_matchCache'.results,
                           LAMBDA r : exactMatch(r.text, _matchCache'.query))
                   = exactOf(_indexCache', _matchCache'.query)]_vars

\* The first input event of a run came after the default view of an index
\* with a Page entry was shown, and its search for a non-empty query
\* returned an entry that is not a Page.
C17_Witness ==
  /\ ev.op = "search"
  /\ ev.pool = "index"
  /\ inputs = 1
  /\ _matchCache.query # <<>>
  /\ \E i \in 1..Len(_indexCache) : _indexCache[i].type = "page"
  /\ \E i \in 1..Len(_matchCache.results) :
       _matchCache.results[i].type # "page"

\* C19: in the task in which the fetch of initSearch succeeds (a fetch is
\* stored and it is not a search that resumes), the default search runs if
\* and only if the input is empty: with an empty input the results area
\* shows the Page entries of the stored index, with a non-empty input the
\* results area and the session cache are left as they were.
C19_DefaultViewOnlyForEmptyInput ==
  [][(netSucceeded' > netSucceeded /\ ev'.op # "resume")
     => IF input = <<>>
        THEN resultsDom'
               = rendered(SelectSeq(_indexCache', LAMBDA r : r.type = "page"))
        ELSE /\ resultsDom' = resultsDom
             /\ _matchCache' = _matchCache
             /\ ev'.op = "stored"]_vars

\* The fetch of initSearch has succeeded while the input held a query whose
\* results are rendered, and they still are.
C19_Witness ==
  /\ ev.op = "stored"
  /\ input # <<>>
  /\ _matchCache.query = ToLowerCase(input)
  /\ resultsDom # <<>>
  /\ resultsDom = rendered(_matchCache.results)

\* C20: FuzzySet computes every pair (candidate text, query) at most once,
\* the pairs of score 0 included: a pair is stored when it is computed, and
\* a stored score never changes nor disappears.
C20_ScoreComputedOnce ==
  [][/\ DOMAIN fuzzyRuns' = DOMAIN _fuzzyCache'
     /\ \A p \in DOMAIN fuzzyRuns' : fuzzyRuns'[p] = 1
     /\ \A p \in DOMAIN _fuzzyCache :
          p \in DOMAIN _fuzzyCache' /\ _fuzzyCache'[p] = _fuzzyCache[p]]_vars

\* A search over the index has asked for the score of one pair twice, for
\* two candidates of the same text; the score is 0 and was computed once.
C20_Witness ==
  /\ SearchEnded
  /\ ev.pool = "index"
  /\ _matchCache.query # <<>>
  /\ \E i, j \in 1..Len(_indexCache) :
       LET p == <<_indexCache[i].text, _matchCache.query>>
       IN  /\ i < j
           /\ _indexCache[i].text = _indexCache[j].text
           /\ ~IsExact(_indexCache[i])
           /\ p \in DOMAIN _fuzzyCache
           /\ _fuzzyCache[p] = 0
           /\ fuzzyRuns[p] = 1

\* The link of the last result of the last rendered section.
LastLink(dom) == Link(Len(dom), Len(dom[Len(dom)].results))

\* C12: with the panel open and results rendered, Arrow Down while the last
\* result link has the focus moves the focus to the query input, and Arrow
\* Up while the first result link has the focus moves it to the query input.
C12_ArrowsWrapToInput ==
  [][(ev'.op = "keydown" /\ isOpen /\ resultsDom # <<>>)
     => /\ (ev'.kind = "ArrowDown" /\ focus = LastLink(resultsDom))
             => focus' = InputEl
        /\ (ev'.kind = "ArrowUp" /\ focus = Link(1, 1))
             => focus' = InputEl]_vars

\* C13: a keydown of k with the Control key and no other modifier flips the
\* visibility of the panel; after a keydown of Escape the panel is closed;
\* and a keydown of Escape, an arrow, / or Enter on the closed panel, with
\* any modifiers, leaves the visibility and the focus as they were.
C13_ToggleEscapeAndClosedKeys ==
  [][ev'.op = "keydown"
     => /\ (ev'.kind = "k" /\ ev'.pool = "ctrl") => isOpen' = ~isOpen
        /\ ev'.kind = "Escape" => ~isOpen'
        /\ (/\ ~isOpen
            /\ ev'.kind \in {"Escape", "ArrowUp", "ArrowDown", "/", "Enter"})
             => isOpen' = isOpen /\ focus' = focus]_vars

\* The / key was pressed on the closed panel while a result link had the
\* focus: the panel is still closed and the focus still on the link.
C13_Witness ==
  /\ ev.op = "keydown"
  /\ ev.kind = "/"
  /\ ~isOpen
  /\ focus.el = "link"

\* The elements that get the focus in the course of n keydown events of the
\* key `key`, without modifiers, on the open panel, the first with the
\* focus on f.
RECURSIVE Reached(_, _, _, _)
Reached(key, f, dom, n) ==
  IF n = 0 THEN {f}
  ELSE LET event == [key |-> key, metaKey |-> FALSE, ctrlKey |-> FALSE,
                     shiftKey |-> FALSE, altKey |-> FALSE]
           g == navigation(event, toggleHotkey(event, Gui(TRUE, f)), dom)
       IN  {f} \cup Reached(key, g.focus, dom, n - 1)

\* C18: with the panel open and results rendered, every result link gets
\* the focus in the course of some number of Arrow Down presses that start
\* with the focus on the query input, and in the course of some number of
\* Arrow Up presses.  No link is reached for the first time after more
\* presses than there are links.
C18_EveryLinkByArrows ==
  (isOpen /\ resultsDom # <<>>)
    => LET links == Links(resultsDom)
           n == Cardinality(links)
       IN  /\ links \subseteq Reached("ArrowDown", InputEl, resultsDom, n)
           /\ links \subseteq Reached("ArrowUp", InputEl, resultsDom, n)

=============================================================================
